---- MODULE Spec2Model ----
(***************************************************************************)
(* Engagement core of Social-Bee-Server: the interaction ledger            *)
(* (models/Post.js, models/Interaction.js and their controllers) and the   *)
(* follow graph (models/User.js, controllers/userController.js) over the   *)
(* DynamoDB tables of config/dynamodb.js.                                  *)
(*                                                                         *)
(* Every request is a process.  One step of a process is one store call    *)
(* (the awaits of the handler) together with the synchronous code that     *)
(* follows it up to the next await.  Every store call may be rejected by   *)
(* the store (throttling, validation, network), in which case the wrapper  *)
(* of config/dynamodb.js rethrows and the handler ends.                    *)
(***************************************************************************)
EXTENDS Integers, FiniteSets, Sequences, TLC

\* ---------------------------------------------------------------- bounds
NumProcs == 2      \* requests that can be in flight at the same time
NumUsers == 2      \* registered users
NumPosts == 1      \* post ids Post.create can hand out
NumReels == 1      \* reel/story ids present in the stories table
MaxIds == 2        \* interaction ids uuidv4 can hand out
MaxShares == 1     \* cap on sharesCount
MaxLimit == 5      \* largest maxRequests option of a rate limiter
MaxWindow == 2     \* largest windowSizeInSeconds option of a rate limiter
MaxTime == 4       \* last second of the clock
MaxCalls == 6      \* requests one window record sees before the next starts
MaxStamp == 5      \* last timestamp Post.create hands out in the UserIdIndex
MaxPageSize == 3   \* largest limit of a timeline call
NumKeyValues == 2  \* values each key attribute of a position marker takes
MaxCut == 4        \* characters a request cuts off the end of a token
MaxNotifications == 2  \* items the notifications table holds

Procs == 1..NumProcs
Users == 1..NumUsers
PostIds == 1..NumPosts
ReelIds == (NumPosts + 1)..(NumPosts + NumReels)
ContentIds == PostIds \cup ReelIds
InteractionIds == 1..MaxIds

VARIABLES
  posts,         \* TABLES.POSTS: postId -> item (attribute name -> value)
  interactions,  \* TABLES.INTERACTIONS: interactionId -> item
  createdPosts,  \* post ids uuidv4 has already handed out to Post.create
  nextId,        \* next interaction id uuidv4 hands out
  following,     \* TABLES.USERS: userId -> the following attribute
  followers,     \* TABLES.USERS: userId -> the followers attribute
  hung,          \* the requests whose pending store call never returns
  pc,            \* position of each request
  call,          \* locals of each request
  last,          \* the error console.error logged last
  res,           \* HTTP status of the last response of a controller (0: none yet)
  maxRequests,          \* rateLimiter option (0: no limiter constructed yet)
  windowSizeInSeconds,  \* rateLimiter option
  now,                  \* Math.floor(Date.now() / 1000)
  rateRecord,    \* the item of the rate limiting table under the recordId
                 \* the modelled requests share
  admitCall,     \* locals of each request inside the rate limiter
  out,           \* what the rate limiter did last: 429 or next(), and the
                 \* X-RateLimit-Remaining header it set
  calls,         \* history: requests the limiter has finished since the
                 \* stored record was put
  admits,        \* history: those of them it passed on to next()
  clean,         \* history: since the stored record was put, requests ran
                 \* one at a time and no store call was rejected
  rejected,      \* history: the store rejected the limiter's last store call
  windowLog,     \* history: the timestamp of the first record that was put,
                 \* the requests passed on to next() within windowSizeInSeconds
                 \* of it, and whether the store ever rejected a call
  userIdIndex,   \* UserIdIndex of the posts table: userId -> the timestamps
                 \* of the user's posts in the order of the range key
  date,          \* new Date() of the next Post.create
  nextKey,       \* the nextKey a paginated handler encoded last ("" if none)
  marker,        \* history: the lastEvaluatedKey that nextKey encodes
  page,          \* the last paginated request: its lastKey, the status of
                 \* the answer and what reached the store as ExclusiveStartKey
  timeline,      \* the last call of Post.getTimelinePosts: whether it threw,
                 \* what it returned, and (history) the owners whose query
                 \* the store rejected
  published,     \* the messages sns.publish accepted for the notifications topic
  emitted,       \* the 'notification' events a handler emitted through socket.io
  notifications, \* SocialMedia_Notifications: notificationId -> item
  inboxCall,     \* history: the arguments of the last Notification.markAsRead
  suppressed,    \* history: the notifications a handler did not send because
                 \* their recipient is the acting user
  undelivered,   \* history: the notifications for which a call inside a
                 \* notification block threw (the publish or the emit)
  attempted      \* history: the steps of notification blocks that were
                 \* started, each as <<step, message>>

vars ==
  <<posts, interactions, createdPosts, nextId, following, followers, hung, pc, call, last,
    res, maxRequests, windowSizeInSeconds, now, rateRecord, admitCall, out, calls,
    admits, clean, rejected, windowLog, userIdIndex, date, timeline, nextKey, marker, page,
    published, emitted, notifications, inboxCall, suppressed, undelivered, attempted>>
ledgerVars == <<posts, interactions, createdPosts, nextId>>
graphVars == <<following, followers, hung>>
\* what the handlers of the interaction ledger never touch
limiterVars ==
  <<maxRequests, windowSizeInSeconds, now, rateRecord, admitCall, out, calls, admits,
    clean, rejected, windowLog>>
timelineVars == <<userIdIndex, date, timeline>>
cursorVars == <<nextKey, marker, page>>
notifyVars ==
  <<published, emitted, notifications, inboxCall, suppressed, undelivered, attempted>>
serviceVars == <<graphVars, res, limiterVars, timelineVars, cursorVars, notifyVars>>
\* what the handlers of the follow graph never touch
offGraphVars == <<ledgerVars, limiterVars, timelineVars, cursorVars, notifyVars>>

\* ------------------------------------------------- the store's primitives
\* what DocumentClient.get returns in result.Item when there is no item
Undefined == [undefined |-> TRUE]

\* dynamoDb.get: the item stored under the key, or undefined
DynamoGet(table, key) == IF key \in DOMAIN table THEN table[key] ELSE Undefined

\* dynamoDb.put: create or replace the item
DynamoPut(table, key, item) == (key :> item) @@ table

\* dynamoDb.delete without a condition: removes the item, no-op when absent
DynamoDelete(table, key) == [k \in DOMAIN table \ {key} |-> table[k]]

\* dynamoDb.update with 'ADD attr :n' and no condition expression: creates the
\* item when there is none, creates the attribute when the item lacks it,
\* and adds to it otherwise
DynamoAdd(table, key, attr, n) ==
  IF key \notin DOMAIN table THEN (key :> (attr :> n)) @@ table
  ELSE IF attr \notin DOMAIN table[key]
       THEN [table EXCEPT ![key] = (attr :> n) @@ table[key]]
       ELSE [table EXCEPT ![key][attr] = table[key][attr] + n]

\* post.userId !== userId on a fetched post (an item without the attribute
\* has userId undefined, which differs from every user id)
NotOwner(post, u) == "userId" \notin DOMAIN post \/ post.userId # u

\* ------------------------------------------------------------ the models
\* Post.create: the item Post.create puts
PostItem(u) ==
  [userId |-> u, likesCount |-> 0, commentsCount |-> 0, sharesCount |-> 0]

\* Interaction.create / Post.like: the interaction item
InteractionItem(type, u, c) == [type |-> type, userId |-> u, contentId |-> c]

\* Story.getById: the stories table holds the reels; it is not written here
StoryGet(c) == IF c \in ReelIds THEN [userId |-> 1] ELSE Undefined

\* the locals of a request: the handler it runs, its caller, the content id
\* and interaction id it works on, and the type of the row it fetched; a
\* local the rest of the handler no longer reads is reset
NoCall ==
  [op |-> "none", user |-> 0, target |-> 0, iid |-> 0, type |-> "none"]

Free(p) == pc[p] = "idle"

\* the locals of a request inside the rate limiter: now, and existingRecord
\* (whether there was one, and its count)
NoAdmit == [now |-> 0, hasExisting |-> FALSE, count |-> 0]

\* JS values as the cursor code handles them
JsNull == [t |-> "null", v |-> <<>>]
JsNumber(digits) == [t |-> "number", v |-> digits]
JsString(chars) == [t |-> "string", v |-> chars]
JsObject(members) == [t |-> "object", v |-> members]

\* no paginated request yet
NoPage == [lastKey |-> <<>>, status |-> 0, passed |-> FALSE, startKey |-> JsNull]

\* no record was put yet
NoWindowLog == [started |-> FALSE, start |-> 0, passed |-> 0, failed |-> FALSE]

\* the store has rejected a call of the limiter: the log ends
FailedLog == [started |-> FALSE, start |-> 0, passed |-> 0, failed |-> TRUE]

\* no call of Notification.markAsRead yet
NoInboxCall == [notificationId |-> 0, userId |-> 0]

\* no call of Post.getTimelinePosts yet
NoTimeline == [called |-> FALSE, threw |-> FALSE, posts |-> <<>>, failed |-> {}]

\* nothing done yet by the rate limiter
NoOut == [status |-> "none", hasRemaining |-> FALSE, remaining |-> 0]

\* the handler sends its response without an error: its locals are gone
Respond(p) ==
  /\ pc' = [pc EXCEPT ![p] = "idle"]
  /\ call' = [call EXCEPT ![p] = NoCall]
  /\ UNCHANGED last

\* the model throws: the catch blocks log the error with console.error and
\* the controller answers 500 'Server error'
Throw(p, error) ==
  /\ pc' = [pc EXCEPT ![p] = "idle"]
  /\ call' = [call EXCEPT ![p] = NoCall]
  /\ last' = error

Goto(p, label, c) ==
  /\ pc' = [pc EXCEPT ![p] = label]
  /\ call' = [call EXCEPT ![p] = c]
  /\ UNCHANGED last

Init ==
  /\ posts = <<>>
  /\ interactions = <<>>
  /\ createdPosts = {}
  /\ nextId = 1
  /\ following = [u \in Users |-> {}]
  /\ hung = {}
  /\ followers = [u \in Users |-> {}]
  /\ pc = [p \in Procs |-> "idle"]
  /\ call = [p \in Procs |-> NoCall]
  /\ last = "none"
  /\ res = 0
  /\ maxRequests = 0
  /\ windowSizeInSeconds = 0
  /\ now = 0
  /\ rateRecord = Undefined
  /\ admitCall = [p \in Procs |-> NoAdmit]
  /\ out = NoOut
  /\ calls = 0
  /\ admits = 0
  /\ clean = TRUE
  /\ rejected = FALSE
  /\ windowLog = NoWindowLog
  /\ userIdIndex = [u \in Users |-> <<>>]
  /\ date = 1
  /\ timeline = NoTimeline
  /\ nextKey = <<>>
  /\ marker = JsNull
  /\ page = NoPage
  /\ published = {}
  /\ emitted = {}
  /\ notifications = <<>>
  /\ inboxCall = NoInboxCall
  /\ suppressed = {}
  /\ undelivered = {}
  /\ attempted = {}

\* ------------------------------------------------------ interaction ledger
\* postController.createPost -> Post.create: one conditional put under a
\* fresh uuid (a rejected put leaves every table as it was)
CreatePost(u) ==
  /\ \E id \in PostIds \ createdPosts :
       /\ id \notin DOMAIN posts
       /\ posts' = DynamoPut(posts, id, PostItem(u))
       /\ createdPosts' = createdPosts \cup {id}
  /\ UNCHANGED <<interactions, nextId, serviceVars, pc, call, last>>

\* postController.sharePost -> Post.share: one unconditional ADD
SharePost(c) ==
  /\ IF "sharesCount" \in DOMAIN DynamoGet(posts, c)
     THEN DynamoGet(posts, c).sharesCount < MaxShares
     ELSE TRUE
  /\ posts' = DynamoAdd(posts, c, "sharesCount", 1)
  /\ UNCHANGED <<interactions, createdPosts, nextId, serviceVars, pc, call, last>>

\* Post.like, the transactWrite: Update 'ADD likesCount 1' and Put of the
\* like row under a fresh uuid, both or neither
LikeTransact(c, id, u) ==
  /\ posts' = DynamoAdd(posts, c, "likesCount", 1)
  /\ interactions' = DynamoPut(interactions, id, InteractionItem("like", u, c))

\* postController.likePost -> Post.like up to the end of its transaction
LikePost(p, u, c) ==
  /\ Free(p)
  /\ nextId \in InteractionIds
  /\ nextId' = nextId + 1
  /\ LET c0 == [NoCall EXCEPT !.op = "like", !.target = c]
     IN \/ /\ LikeTransact(c, nextId, u)
           /\ Goto(p, "like_get", c0)
        \/ /\ UNCHANGED <<posts, interactions>>
           /\ Throw(p, "StoreError")
  /\ UNCHANGED <<createdPosts, serviceVars>>

\* Post.like / Post.unlike: (await Post.getById(postId)).likesCount
ReadLikesCount(p) ==
  /\ pc[p] \in {"like_get", "unlike_get"}
  /\ \/ IF DynamoGet(posts, call[p].target) = Undefined
        THEN Throw(p, "TypeError")
        ELSE Respond(p)
     \/ Throw(p, "StoreError")
  /\ UNCHANGED <<ledgerVars, serviceVars>>

\* the like rows the UserContentIndex query of Post.unlike returns
LikeRows(u, c) ==
  {i \in DOMAIN interactions :
     interactions[i] = InteractionItem("like", u, c)}

\* postController.unlikePost -> Post.unlike up to the end of its query
UnlikePost(p, u, c) ==
  /\ Free(p)
  /\ LET c0 == [NoCall EXCEPT !.op = "unlike", !.target = c]
     IN \/ IF LikeRows(u, c) = {}
           THEN Respond(p)
           ELSE \E i \in LikeRows(u, c) :
                  Goto(p, "unlike_tx", [c0 EXCEPT !.iid = i])
        \/ Throw(p, "StoreError")
  /\ UNCHANGED <<ledgerVars, serviceVars>>

\* Post.unlike, the transactWrite: Update 'ADD likesCount -1' and Delete of
\* the row found by the query, both without a condition
UnlikeTransact(c, id) ==
  /\ posts' = DynamoAdd(posts, c, "likesCount", -1)
  /\ interactions' = DynamoDelete(interactions, id)

UnlikeTx(p) ==
  /\ pc[p] = "unlike_tx"
  /\ \/ /\ UnlikeTransact(call[p].target, call[p].iid)
        /\ Goto(p, "unlike_get", [call[p] EXCEPT !.iid = 0])
     \/ /\ UNCHANGED <<posts, interactions>>
        /\ Throw(p, "StoreError")
  /\ UNCHANGED <<createdPosts, nextId, serviceVars>>

\* interactionController.addComment up to the call of Interaction.create:
\* Post.getById, then Story.getById when there is no such post, and the 404
\* (the request carries no parentId; the stories table is never written, so
\* its read is taken in the same step)
AddComment(p, u, c) ==
  /\ Free(p)
  /\ nextId \in InteractionIds
  /\ nextId' = nextId + 1
  /\ \/ IF DynamoGet(posts, c) = Undefined /\ StoryGet(c) = Undefined
        THEN Respond(p)
        ELSE Goto(p, "ic_put",
                  [NoCall EXCEPT !.op = "comment", !.user = u, !.target = c, !.iid = nextId])
     \/ Throw(p, "StoreError")
  /\ UNCHANGED <<posts, interactions, createdPosts, serviceVars>>

\* reelController.commentReel: Interaction.create with no check of the id
CommentReel(p, u, c) ==
  /\ Free(p)
  /\ nextId \in InteractionIds
  /\ nextId' = nextId + 1
  /\ Goto(p, "ic_put",
          [NoCall EXCEPT !.op = "comment", !.user = u, !.target = c, !.iid = nextId])
  /\ UNCHANGED <<posts, interactions, createdPosts, serviceVars>>

\* Interaction.create: the conditional put of the row
InteractionCreatePut(p) ==
  /\ pc[p] = "ic_put"
  /\ \/ /\ interactions' = DynamoPut(interactions, call[p].iid,
                              InteractionItem("comment", call[p].user, call[p].target))
        /\ Goto(p, "ic_update", [call[p] EXCEPT !.user = 0, !.iid = 0])
     \/ /\ UNCHANGED interactions
        /\ Throw(p, "StoreError")
  /\ UNCHANGED <<posts, createdPosts, nextId, serviceVars>>

\* Interaction.create: 'ADD commentsCount 1' on the posts table
InteractionCreateUpdate(p) ==
  /\ pc[p] = "ic_update"
  /\ \/ /\ posts' = DynamoAdd(posts, call[p].target, "commentsCount", 1)
        /\ Respond(p)
     \/ /\ UNCHANGED posts
        /\ Throw(p, "StoreError")
  /\ UNCHANGED <<interactions, createdPosts, nextId, serviceVars>>

\* Interaction.delete: who may delete the fetched row
MayDeleteAnyone(row, u) == TRUE

MayDelete(row, u) == row.userId = u

\* interactionController.deleteComment: a delete request for any id arrives
DeleteComment(p, u, i) ==
  /\ Free(p)
  /\ Goto(p, "id_get", [NoCall EXCEPT !.op = "delete", !.user = u, !.iid = i])
  /\ UNCHANGED <<ledgerVars, serviceVars>>

\* Interaction.delete: Interaction.getById and the ownership check
InteractionDeleteGet(p) ==
  /\ pc[p] = "id_get"
  /\ LET row == DynamoGet(interactions, call[p].iid)
     IN \/ IF row = Undefined THEN Throw(p, "Interaction not found")
           ELSE IF ~MayDelete(row, call[p].user)
                THEN Throw(p, "Unauthorized to delete this interaction")
                ELSE Goto(p, "id_delete",
                          [call[p] EXCEPT !.user = 0, !.type = row.type,
                                          !.target = row.contentId])
        \/ Throw(p, "StoreError")
  /\ UNCHANGED <<ledgerVars, serviceVars>>

\* Interaction.delete: the unconditional delete of the row
InteractionDeleteRow(p) ==
  /\ pc[p] = "id_delete"
  /\ \/ /\ interactions' = DynamoDelete(interactions, call[p].iid)
        /\ IF call[p].type = "comment"
           THEN Goto(p, "id_update", [call[p] EXCEPT !.iid = 0])
           ELSE Respond(p)
     \/ /\ UNCHANGED interactions
        /\ Throw(p, "StoreError")
  /\ UNCHANGED <<posts, createdPosts, nextId, serviceVars>>

\* Interaction.delete: 'ADD commentsCount -1' on the posts table
InteractionDeleteUpdate(p) ==
  /\ pc[p] = "id_update"
  /\ \/ /\ posts' = DynamoAdd(posts, call[p].target, "commentsCount", -1)
        /\ Respond(p)
     \/ /\ UNCHANGED posts
        /\ Throw(p, "StoreError")
  /\ UNCHANGED <<interactions, createdPosts, nextId, serviceVars>>

\* postController.deletePost up to its ownership check (404 / 403)
DeletePost(p, u, c) ==
  /\ Free(p)
  /\ LET c0 == [NoCall EXCEPT !.op = "deletePost", !.user = u, !.target = c]
         post == DynamoGet(posts, c)
     IN \/ IF post = Undefined THEN Respond(p)
           ELSE IF NotOwner(post, u) THEN Respond(p)
                ELSE Goto(p, "dp_get", c0)
        \/ Throw(p, "StoreError")
  /\ UNCHANGED <<ledgerVars, serviceVars>>

\* Post.delete: the second read and ownership check
PostDeleteGet(p) ==
  /\ pc[p] = "dp_get"
  /\ LET post == DynamoGet(posts, call[p].target)
     IN \/ IF post = Undefined \/ NotOwner(post, call[p].user)
           THEN Throw(p, "Unauthorized to delete this post")
           ELSE Goto(p, "dp_delete", [call[p] EXCEPT !.user = 0])
        \/ Throw(p, "StoreError")
  /\ UNCHANGED <<ledgerVars, serviceVars>>

\* Post.delete: the unconditional delete
PostDeleteRow(p) ==
  /\ pc[p] = "dp_delete"
  /\ \/ /\ posts' = DynamoDelete(posts, call[p].target)
        /\ Respond(p)
     \/ /\ UNCHANGED posts
        /\ Throw(p, "StoreError")
  /\ UNCHANGED <<interactions, createdPosts, nextId, serviceVars>>

Next ==
  \/ \E u \in Users : CreatePost(u)
  \/ \E c \in PostIds : SharePost(c)
  \/ \E p \in Procs, u \in Users, c \in PostIds : LikePost(p, u, c)
  \/ \E p \in Procs : ReadLikesCount(p)
  \/ \E p \in Procs, u \in Users, c \in PostIds : UnlikePost(p, u, c)
  \/ \E p \in Procs : UnlikeTx(p)
  \/ \E p \in Procs, u \in Users, c \in ContentIds : AddComment(p, u, c)
  \/ \E p \in Procs, u \in Users, c \in ReelIds : CommentReel(p, u, c)
  \/ \E p \in Procs : InteractionCreatePut(p)
  \/ \E p \in Procs : InteractionCreateUpdate(p)
  \/ \E p \in Procs, u \in Users, i \in InteractionIds : DeleteComment(p, u, i)
  \/ \E p \in Procs : InteractionDeleteGet(p)
  \/ \E p \in Procs : InteractionDeleteRow(p)
  \/ \E p \in Procs : InteractionDeleteUpdate(p)
  \/ \E p \in Procs, u \in Users, c \in PostIds : DeletePost(p, u, c)
  \/ \E p \in Procs : PostDeleteGet(p)
  \/ \E p \in Procs : PostDeleteRow(p)

Spec == Init /\ [][Next]_vars

\* ------------------------------------------------------------ follow graph
\* the ids a follow request can name: the registered users and one id that
\* is not registered
UserIds == 1..(NumUsers + 1)

\* User.getById on the users table
UserGet(u) == IF u \in Users THEN [userId |-> u] ELSE Undefined

\* whether the dynamoDb object of config/dynamodb.js has a createSet method
\* (it has get, put, update, delete, query, scan, batchGet, batchWrite and
\* transactWrite)
HasCreateSetAsDocumentClient == TRUE

HasCreateSet == FALSE

\* dynamoDb.update 'ADD attr :set' / 'DELETE attr :set' on a user item
SetAdd(table, key, member) == [table EXCEPT ![key] = @ \cup {member}]
SetDelete(table, key, member) == [table EXCEPT ![key] = @ \ {member}]

\* the self check of userController.followUser / unfollowUser
IsSelfNever(u, t) == FALSE

IsSelf(u, t) == t = u

\* a follow or unfollow request arrives: userController.followUser /
\* unfollowUser up to the self check (400 for a request on oneself)
GraphRequest(p, op, u, t) ==
  /\ Free(p)
  /\ IF IsSelf(u, t)
     THEN Respond(p) /\ res' = 400
     ELSE /\ Goto(p, "graph_getTarget", [NoCall EXCEPT !.op = op, !.user = u, !.target = t])
          /\ UNCHANGED res
  /\ UNCHANGED <<offGraphVars, graphVars>>

\* the next store call of a follow or unfollow request, with the code that
\* follows it: User.getById(targetUserId) and the 404, then User.followUser /
\* User.unfollowUser, which build the parameters of the first update with
\* dynamoDb.createSet, update the caller's following set, build the
\* parameters of the second update and update the target's followers set;
\* a throw is answered with 500 by the controller's catch block
GraphStep(p) ==
  /\ pc[p] \in {"graph_getTarget", "graph_following", "graph_followers"}
  /\ p \notin hung
  /\ LET u == call[p].user
         t == call[p].target
         add == call[p].op = "follow"
     IN CASE pc[p] = "graph_getTarget" ->
               /\ \/ IF UserGet(t) = Undefined THEN Respond(p) /\ res' = 404
                     ELSE IF ~HasCreateSet
                          THEN /\ Throw(p, "TypeError: dynamoDb.createSet is not a function")
                               /\ res' = 500
                          ELSE Goto(p, "graph_following", call[p]) /\ UNCHANGED res
                  \/ Throw(p, "StoreError") /\ res' = 500
               /\ UNCHANGED graphVars
          [] pc[p] = "graph_following" ->
               \/ /\ following' = IF add THEN SetAdd(following, u, t)
                                  ELSE SetDelete(following, u, t)
                  /\ UNCHANGED <<followers, hung, res>>
                  /\ Goto(p, "graph_followers", call[p])
               \/ /\ UNCHANGED graphVars
                  /\ Throw(p, "StoreError")
                  /\ res' = 500
          [] pc[p] = "graph_followers" ->
               \/ /\ followers' = IF add THEN SetAdd(followers, t, u)
                                  ELSE SetDelete(followers, t, u)
                  /\ UNCHANGED <<following, hung>>
                  /\ Respond(p)
                  /\ res' = 200
               \/ /\ UNCHANGED graphVars
                  /\ Throw(p, "StoreError")
                  /\ res' = 500
  /\ UNCHANGED offGraphVars

GraphNext ==
  \/ \E p \in Procs, u \in Users, t \in UserIds : GraphRequest(p, "follow", u, t)
  \/ \E p \in Procs, u \in Users, t \in UserIds : GraphRequest(p, "unfollow", u, t)
  \/ \E p \in Procs : GraphStep(p)

GraphSpec == Init /\ [][GraphNext]_vars

\* the store call a request is waiting for never returns: the promise of
\* dynamoDB.get(params).promise() / update(params).promise() is never
\* settled (the clients are constructed without httpOptions and no await is
\* raced against a timer)
StoreHangs(p) ==
  /\ pc[p] \in {"graph_getTarget", "graph_following", "graph_followers"}
  /\ p \notin hung
  /\ hung' = hung \cup {p}
  /\ UNCHANGED <<following, followers, res, pc, call, last, offGraphVars>>

HangNext ==
  \/ GraphNext
  \/ \E p \in Procs : StoreHangs(p)

\* a request whose store call has returned goes on to its next step
HangSpec ==
  /\ Init
  /\ [][HangNext]_vars
  /\ \A p \in Procs : WF_vars(GraphStep(p))

\* ------------------------------------------------------------ rate limiter
\* what the ledger and the graph never touch apart from the limiter's state
offLimiterVars ==
  <<ledgerVars, graphVars, res, call, timelineVars, cursorVars, notifyVars>>

\* rateLimiter(options): the middleware is constructed with its options
RateLimiterCreate(limit, window) ==
  /\ maxRequests = 0
  /\ maxRequests' = limit
  /\ windowSizeInSeconds' = window
  /\ UNCHANGED <<now, rateRecord, admitCall, out, calls, admits, clean, rejected,
                 windowLog, pc, last, offLimiterVars>>

\* a second passes
Tick ==
  /\ maxRequests > 0
  /\ now < MaxTime
  /\ now' = now + 1
  /\ UNCHANGED <<maxRequests, windowSizeInSeconds, rateRecord, admitCall, out, calls,
                 admits, clean, rejected, windowLog, pc, last, offLimiterVars>>

\* existingRecord && existingRecord.timestamp > windowStart
InWindow(record, t) ==
  IF record = Undefined THEN FALSE
  ELSE record.timestamp > t - windowSizeInSeconds

\* the Item of putParams: a new record for the window that starts at t
NewRecord(t) ==
  [count |-> 1, timestamp |-> t, expiryTime |-> t + windowSizeInSeconds * 2]

\* the limit test on the count that was read
LimitExceeded(count) == count > maxRequests

\* existingRecord.count >= maxRequests
LimitReached(count) == count >= maxRequests

\* the X-RateLimit-Remaining header: set only if (existingRecord), from the
\* count that was read
RemainingHeader(a) ==
  IF a.hasExisting
  THEN [hasRemaining |-> TRUE, remaining |-> maxRequests - a.count - 1]
  ELSE [hasRemaining |-> FALSE, remaining |-> 0]

\* next() is called, after the headers were set or from the catch block
CallNext(header) ==
  [status |-> "next", hasRemaining |-> header.hasRemaining,
   remaining |-> header.remaining]

\* res.status(429).json(...): the request is denied
Deny == [status |-> "429", hasRemaining |-> FALSE, remaining |-> 0]

\* the catch block after a rejected store call: console.error and next()
FailClosed == Deny

FailOpen == CallNext([hasRemaining |-> FALSE, remaining |-> 0])

\* history: a record with timestamp t is put; the first one opens the window
\* the log follows
Started(log, t) ==
  IF log.started \/ log.failed THEN log ELSE [log EXCEPT !.started = TRUE, !.start = t]

\* history: a request is passed on to next() now
PassedOn(log) ==
  IF log.started /\ now >= log.start /\ now < log.start + windowSizeInSeconds
  THEN [log EXCEPT !.passed = @ + 1]
  ELSE log

OthersInLimiter(p) == \E q \in Procs \ {p} : pc[q] \in {"rl_update", "rl_put"}

\* the middleware up to the end of its dynamoDB.get: the record is read and
\* the request is denied with 429 or goes on to its write
Admit(p) ==
  /\ Free(p)
  /\ maxRequests > 0
  /\ calls < MaxCalls
  /\ \/ /\ IF InWindow(rateRecord, now)
           THEN IF LimitReached(rateRecord.count)
                THEN /\ pc' = pc
                     /\ admitCall' = admitCall
                     /\ out' = Deny
                     /\ calls' = calls + 1
                ELSE /\ pc' = [pc EXCEPT ![p] = "rl_update"]
                     /\ admitCall' = [admitCall EXCEPT ![p] =
                          [now |-> 0, hasExisting |-> TRUE, count |-> rateRecord.count]]
                     /\ UNCHANGED <<out, calls>>
           ELSE /\ pc' = [pc EXCEPT ![p] = "rl_put"]
                /\ admitCall' = [admitCall EXCEPT ![p] =
                     [now |-> now, hasExisting |-> rateRecord # Undefined,
                      count |-> IF rateRecord = Undefined THEN 0 ELSE rateRecord.count]]
                /\ UNCHANGED <<out, calls>>
        /\ clean' = (clean /\ ~OthersInLimiter(p))
        /\ rejected' = FALSE
        /\ UNCHANGED <<last, admits, windowLog>>
     \/ /\ rejected' = TRUE
        /\ last' = "Rate limiting error"
        /\ out' = FailOpen
        /\ calls' = calls + 1
        /\ admits' = IF out'.status = "next" THEN admits + 1 ELSE admits
        /\ clean' = FALSE
        /\ windowLog' = FailedLog
        /\ UNCHANGED <<pc, admitCall>>
  /\ UNCHANGED <<maxRequests, windowSizeInSeconds, now, rateRecord, offLimiterVars>>

\* the rest of the middleware: dynamoDB.update of the count or dynamoDB.put
\* of a new record, the headers and next(); a rejected call goes to the
\* catch block
AdmitWrite(p) ==
  /\ pc[p] \in {"rl_update", "rl_put"}
  /\ pc' = [pc EXCEPT ![p] = "idle"]
  /\ admitCall' = [admitCall EXCEPT ![p] = NoAdmit]
  /\ \/ /\ IF pc[p] = "rl_update"
           THEN /\ rateRecord' = [rateRecord EXCEPT !.count = @ + 1]
                /\ calls' = calls + 1
                /\ admits' = admits + 1
                /\ clean' = clean
           ELSE /\ rateRecord' = NewRecord(admitCall[p].now)
                /\ calls' = 1
                /\ admits' = 1
                /\ clean' = ~OthersInLimiter(p)
        /\ out' = CallNext(RemainingHeader(admitCall[p]))
        /\ rejected' = FALSE
        /\ windowLog' = PassedOn(IF pc[p] = "rl_put"
                                 THEN Started(windowLog, admitCall[p].now)
                                 ELSE windowLog)
        /\ UNCHANGED last
     \/ /\ rejected' = TRUE
        /\ last' = "Rate limiting error"
        /\ out' = FailOpen
        /\ calls' = calls + 1
        /\ admits' = IF out'.status = "next" THEN admits + 1 ELSE admits
        /\ clean' = FALSE
        /\ windowLog' = FailedLog
        /\ UNCHANGED rateRecord
  /\ UNCHANGED <<maxRequests, windowSizeInSeconds, now, offLimiterVars>>

LimiterNext ==
  \/ \E limit \in 1..MaxLimit, window \in 1..MaxWindow : RateLimiterCreate(limit, window)
  \/ Tick
  \/ \E p \in Procs : Admit(p)
  \/ \E p \in Procs : AdmitWrite(p)

LimiterSpec == Init /\ [][LimiterNext]_vars

\* ---------------------------------------------------------------- timeline
Min(a, b) == IF a <= b THEN a ELSE b

\* the userIds arrays a timeline call can be given
OwnerLists ==
  {owners \in UNION {[1..n -> Users] : n \in 1..NumUsers} :
     \A i, j \in DOMAIN owners : i # j => owners[i] # owners[j]}

\* Post.create as the UserIdIndex sees it: a post of u with the timestamp of
\* the moment
TimelinePostCreate(u) ==
  /\ date <= MaxStamp
  /\ userIdIndex' = [userIdIndex EXCEPT ![u] = Append(@, [userId |-> u, timestamp |-> date])]
  /\ date' = date + 1
  /\ UNCHANGED <<timeline, notifyVars, ledgerVars, graphVars, res, limiterVars, cursorVars, pc, call,
                 last>>

\* time passes without a post
TimelineTick ==
  /\ date <= MaxStamp
  /\ date' = date + 1
  /\ UNCHANGED <<userIdIndex, timeline, notifyVars, ledgerVars, graphVars, res, limiterVars,
                 cursorVars, pc, call, last>>

\* dynamoDb.query on UserIdIndex with Limit and no ScanIndexForward: the
\* first `limit` items of the owner in ascending order of the range key;
\* the wrapper returns result.Items, an array
Query(u, limit) == SubSeq(userIdIndex[u], 1, Min(limit, Len(userIdIndex[u])))

\* result => result.Items on what the wrapper returned: an Array has no
\* property Items, the value is undefined
Items(result) == [isArray |-> FALSE, elems |-> <<>>]

\* Array.prototype.flatMap: an array value is spread, any other value is
\* one element
RECURSIVE FlatMapItems(_)
FlatMapItems(results) ==
  IF results = <<>> THEN <<>>
  ELSE (IF Items(Head(results)).isArray THEN Items(Head(results)).elems
        ELSE <<Undefined>>)
       \o FlatMapItems(Tail(results))

\* (a, b) => new Date(b.timestamp) - new Date(a.timestamp) <= 0
NotOlder(a, b) == a.timestamp >= b.timestamp

RECURSIVE Insert(_, _)
Insert(x, sorted) ==
  IF sorted = <<>> THEN <<x>>
  ELSE IF NotOlder(x, Head(sorted)) THEN <<x>> \o sorted
       ELSE <<Head(sorted)>> \o Insert(x, Tail(sorted))

RECURSIVE SortDefined(_)
SortDefined(s) ==
  IF s = <<>> THEN <<>> ELSE Insert(Head(s), SortDefined(Tail(s)))

\* Array.prototype.sort with the comparator of getTimelinePosts: undefined
\* elements go to the end without the comparator being called
Sort(s) ==
  SortDefined(SelectSeq(s, LAMBDA x : x # Undefined))
    \o SelectSeq(s, LAMBDA x : x = Undefined)

\* sortedPosts.slice(0, limit)
Slice(s, limit) == SubSeq(s, 1, Min(limit, Len(s)))

\* Post.getTimelinePosts(userIds, limit): Promise.all over one query per
\* owner (it rejects when any of them is rejected, and the catch block
\* rethrows), flatMap, sort, slice
GetTimelinePosts(owners, limit) ==
  /\ \E failed \in SUBSET {owners[i] : i \in DOMAIN owners} :
       timeline' =
         IF failed # {}
         THEN [called |-> TRUE, threw |-> TRUE, posts |-> <<>>, failed |-> failed]
         ELSE [called |-> TRUE, threw |-> FALSE,
               posts |-> Slice(Sort(FlatMapItems(
                           [i \in DOMAIN owners |-> Query(owners[i], limit)])), limit),
               failed |-> {}]
  /\ last' = IF timeline'.threw THEN "StoreError" ELSE last
  /\ UNCHANGED <<userIdIndex, date, notifyVars, ledgerVars, graphVars, res, limiterVars, cursorVars,
                 pc, call>>

TimelineNext ==
  \/ \E u \in Users : TimelinePostCreate(u)
  \/ TimelineTick
  \/ \E owners \in OwnerLists, limit \in 1..MaxPageSize : GetTimelinePosts(owners, limit)

TimelineSpec == Init /\ [][TimelineNext]_vars

\* ------------------------------------------------------------ cursor codec
\* strings are sequences of character codes
Quote == 34
Backslash == 92
Comma == 44
Colon == 58
LeftBrace == 123
RightBrace == 125
EqualsSign == 61
ReplacementChar == 65533

\* the key attributes of a LastEvaluatedKey of the ContentIndex query on
\* the interactions table
Name_interactionId == <<105, 110, 116, 101, 114, 97, 99, 116, 105, 111, 110, 73, 100>>
Name_contentId == <<99, 111, 110, 116, 101, 110, 116, 73, 100>>
Name_timestamp == <<116, 105, 109, 101, 115, 116, 97, 109, 112>>

KeyValues == {<<48 + n>> : n \in 1..NumKeyValues}

\* the LastEvaluatedKey values the store can return
Markers ==
  {JsObject(<<<<Name_interactionId, i>>, <<Name_contentId, c>>, <<Name_timestamp, t>>>>) :
     i \in KeyValues, c \in KeyValues, t \in KeyValues}

RECURSIVE Concat(_)
Concat(seqs) == IF seqs = <<>> THEN <<>> ELSE Head(seqs) \o Concat(Tail(seqs))

\* JSON.stringify of a string without characters that need an escape
StringifyString(chars) == <<Quote>> \o chars \o <<Quote>>

\* JSON.stringify
Stringify(value) ==
  CASE value.t = "null" -> <<110, 117, 108, 108>>
    [] value.t = "number" -> value.v
    [] value.t = "string" -> StringifyString(value.v)
    [] value.t = "object" ->
         <<LeftBrace>>
         \o Concat([i \in DOMAIN value.v |->
                     (IF i = 1 THEN <<>> ELSE <<Comma>>)
                     \o StringifyString(value.v[i][1]) \o <<Colon>>
                     \o StringifyString(value.v[i][2])])
         \o <<RightBrace>>

\* the base64 alphabet: A-Z a-z 0-9 + /
Base64Char(n) ==
  IF n < 26 THEN 65 + n
  ELSE IF n < 52 THEN 97 + (n - 26)
  ELSE IF n < 62 THEN 48 + (n - 52)
  ELSE IF n = 62 THEN 43 ELSE 47

\* the value of a character of the alphabet, -1 for any other character
Base64Value(c) ==
  IF c >= 65 /\ c <= 90 THEN c - 65
  ELSE IF c >= 97 /\ c <= 122 THEN c - 97 + 26
  ELSE IF c >= 48 /\ c <= 57 THEN c - 48 + 52
  ELSE IF c = 43 THEN 62
  ELSE IF c = 47 THEN 63 ELSE -1

\* buffer.toString('base64'): three bytes give four characters, a last
\* group of one or two bytes is padded with =
ToBase64(bytes) ==
  LET n == Len(bytes)
      byte(i) == IF i <= n THEN bytes[i] ELSE 0
      char(k) ==
        LET g == 3 * ((k - 1) \div 4)
            r == (k - 1) % 4
        IN IF r = 0 THEN Base64Char(byte(g + 1) \div 4)
           ELSE IF r = 1
           THEN Base64Char((byte(g + 1) % 4) * 16 + byte(g + 2) \div 16)
           ELSE IF r = 2
           THEN IF g + 2 > n THEN EqualsSign
                ELSE Base64Char((byte(g + 2) % 16) * 4 + byte(g + 3) \div 64)
           ELSE IF g + 3 > n THEN EqualsSign ELSE Base64Char(byte(g + 3) % 64)
  IN [k \in 1..(4 * ((n + 2) \div 3)) |-> char(k)]

\* the values of the characters of the alphabet before the first =
Base64Values(chars) ==
  LET pads == {i \in DOMAIN chars : chars[i] = EqualsSign}
      end == IF pads = {} THEN Len(chars)
             ELSE (CHOOSE i \in pads : \A j \in pads : i <= j) - 1
  IN SelectSeq([i \in 1..end |-> Base64Value(chars[i])], LAMBDA x : x >= 0)

\* four values give three bytes, a last group of two or three values gives
\* one or two bytes, a single last value gives none
BytesOfValues(v) ==
  LET byte(j) ==
        LET g == 4 * ((j - 1) \div 3)
            r == (j - 1) % 3
        IN IF r = 0 THEN v[g + 1] * 4 + v[g + 2] \div 16
           ELSE IF r = 1 THEN (v[g + 2] % 16) * 16 + v[g + 3] \div 4
           ELSE (v[g + 3] % 4) * 64 + v[g + 4]
  IN [j \in 1..((Len(v) * 6) \div 8) |-> byte(j)]

\* Buffer.from(lastKey): the characters themselves as bytes
FromUtf8(chars) == chars

\* Buffer.from(lastKey, 'base64'): never throws; decodes up to the padding
\* and drops an incomplete last character
FromBase64(chars) == BytesOfValues(Base64Values(chars))

\* buffer.toString(): ASCII bytes are their characters, any other byte
\* gives a character outside ASCII
BufferToString(bytes) ==
  [i \in DOMAIN bytes |-> IF bytes[i] < 128 THEN bytes[i] ELSE ReplacementChar]

\* Buffer.from(JSON.stringify(result.lastEvaluatedKey)).toString('base64')
Encode(value) == ToBase64(Stringify(value))

SyntaxError == [ok |-> FALSE, value |-> JsNull]
Parsed(value) == [ok |-> TRUE, value |-> value]

\* the position of the quote that closes the string opened at position
\* from - 1, 0 when the text ends first or holds a control character or an
\* escape (the modelled texts carry no valid escape)
RECURSIVE ClosingQuote(_, _)
ClosingQuote(text, from) ==
  IF from > Len(text) THEN 0
  ELSE IF text[from] = Quote THEN from
  ELSE IF text[from] < 32 \/ text[from] = Backslash THEN 0
  ELSE ClosingQuote(text, from + 1)

\* the members of an object from position from (a quote is expected there)
\* to the closing brace, which must end the text
RECURSIVE ParseMembers(_, _, _)
ParseMembers(text, from, members) ==
  IF from > Len(text) \/ text[from] # Quote THEN SyntaxError
  ELSE LET nameEnd == ClosingQuote(text, from + 1)
       IN IF nameEnd = 0 \/ nameEnd + 2 > Len(text)
             \/ text[nameEnd + 1] # Colon \/ text[nameEnd + 2] # Quote
          THEN SyntaxError
          ELSE LET valueEnd == ClosingQuote(text, nameEnd + 3)
                   member == <<SubSeq(text, from + 1, nameEnd - 1),
                               SubSeq(text, nameEnd + 3, valueEnd - 1)>>
               IN IF valueEnd = 0 \/ valueEnd + 1 > Len(text) THEN SyntaxError
                  ELSE IF text[valueEnd + 1] = RightBrace
                  THEN IF valueEnd + 1 = Len(text)
                       THEN Parsed(JsObject(Append(members, member)))
                       ELSE SyntaxError
                  ELSE IF text[valueEnd + 1] = Comma
                  THEN ParseMembers(text, valueEnd + 2, Append(members, member))
                  ELSE SyntaxError

IsNumberText(text) ==
  /\ text # <<>>
  /\ \A i \in DOMAIN text : text[i] >= 48 /\ text[i] <= 57
  /\ (Len(text) > 1 => text[1] # 48)

\* JSON.parse on the texts the modelled requests carry: null, a number of
\* digits, a string, or an object of string members, without white space
JsonParse(text) ==
  IF text = <<110, 117, 108, 108>> THEN Parsed(JsNull)
  ELSE IF IsNumberText(text) THEN Parsed(JsNumber(text))
  ELSE IF text = <<>> THEN SyntaxError
  ELSE IF text[1] = Quote
  THEN IF Len(text) >= 2 /\ ClosingQuote(text, 2) = Len(text)
       THEN Parsed(JsString(SubSeq(text, 2, Len(text) - 1)))
       ELSE SyntaxError
  ELSE IF text[1] = LeftBrace
  THEN IF text = <<LeftBrace, RightBrace>> THEN Parsed(JsObject(<<>>))
       ELSE ParseMembers(text, 2, <<>>)
  ELSE SyntaxError

\* JSON.parse(Buffer.from(lastKey, 'base64').toString())
Decode(lastKey) == JsonParse(BufferToString(FromBase64(lastKey)))

\* if (lastEvaluatedKey): null, 0 and '' are falsy
Truthy(value) ==
  CASE value.t = "null" -> FALSE
    [] value.t = "number" -> value.v # <<48>>
    [] value.t = "string" -> value.v # <<>>
    [] value.t = "object" -> TRUE

\* the lastKey values a request can carry when tok is the nextKey handed
\* out last: none, tok itself, tok with up to MaxCut characters cut off its
\* end, the encodings of JSON texts that are no position marker, and the
\* word garbage
LastKeys(tok) ==
  {<<>>, tok}
  \cup {SubSeq(tok, 1, Len(tok) - k) : k \in 1..Min(MaxCut, Len(tok))}
  \cup {Encode(JsNull), Encode(JsNumber(<<49>>)), Encode(JsObject(<<>>)),
        Encode(JsString(<<120>>)), <<103, 97, 114, 98, 97, 103, 101>>}

\* lines 189-193 of getComments applied to a result.lastEvaluatedKey (the
\* same code ends getReplies, getUserPosts and getNotifications)
EncodeNextKey(m) ==
  /\ nextKey' = Encode(m)
  /\ marker' = m
  /\ UNCHANGED <<page, notifyVars, ledgerVars, graphVars, res, limiterVars, timelineVars, pc, call,
                 last>>

\* interactionController.getComments / notificationController.getNotifications
\* for a request with this lastKey: the decoding and its 400, then the
\* query with ExclusiveStartKey when the decoded value is truthy.  What
\* follows ends in the catch block with 500 in each case: the store rejects
\* a start key that is no key of the index, or the handler reads a property
\* of result.interactions, which is undefined because dynamoDb.query has
\* already returned result.Items (a query the store rejects ends there too)
GetPage(lastKey) ==
  /\ LET d == Decode(lastKey)
         value == IF lastKey = <<>> THEN JsNull ELSE d.value
     IN IF lastKey # <<>> /\ ~d.ok
        THEN /\ page' = [lastKey |-> lastKey, status |-> 400, passed |-> FALSE,
                         startKey |-> JsNull]
             /\ UNCHANGED last
        ELSE /\ page' = [lastKey |-> lastKey, status |-> 500, passed |-> Truthy(value),
                         startKey |-> IF Truthy(value) THEN value ELSE JsNull]
             /\ last' = IF Truthy(value) /\ value \notin Markers
                        THEN "ValidationException"
                        ELSE "TypeError"
  /\ UNCHANGED <<nextKey, marker, notifyVars, ledgerVars, graphVars, res, limiterVars, timelineVars,
                 pc, call>>

CursorNext ==
  \/ \E m \in Markers : EncodeNextKey(m)
  \/ \E lastKey \in LastKeys(nextKey) : GetPage(lastKey)

CursorSpec == Init /\ [][CursorNext]_vars

\* ------------------------------------------------------------ notifications
\* server.js creates io but never calls app.set('io', io), so
\* req.app.get('io') is undefined in every handler
HasIo == FALSE

\* the id of comment i as the contentId of a like row (uuids of posts and of
\* comments do not coincide)
CommentRef(i) == NumPosts + NumReels + i

\* post.userId (0 stands for undefined: an item that lacks the attribute)
OwnerOf(post) == IF "userId" \in DOMAIN post THEN post.userId ELSE 0

\* notificationMessage of a handler
NotificationMessage(type, u, recipient, c, contentType) ==
  [type |-> type, senderId |-> u, recipientId |-> recipient, contentId |-> c,
   contentType |-> contentType]

\* the negation of 'post.userId !== userId'
SameUserNever(owner, u) == FALSE

SameUser(owner, u) == owner = u

\* what a notification block reads and writes; threw: an exception has left
\* the block, error: what console.error logged last
NotifyState ==
  [published |-> published, emitted |-> emitted, suppressed |-> suppressed,
   undelivered |-> undelivered, attempted |-> attempted, threw |-> FALSE,
   error |-> last]

\* catch (notifError) of a notification block: it logs and the handler goes on
Rethrown(s) == [s EXCEPT !.threw = TRUE, !.error = "NotificationError"]

Caught(s) == [s EXCEPT !.error = "NotificationError"]

\* a notification block given the message it would send; needsOwner is the
\* 'contentOwnerId &&' of addComment.  Inside its try: User.getById,
\* snsService.publishNotification, then req.app.get('io').to(...).emit(...);
\* a rejected call and the TypeError of the missing io end the block in its
\* catch, which only logs
NotificationBlock(s, m, needsOwner) ==
  IF s.threw \/ (needsOwner /\ m.recipientId = 0)
  THEN {s}
  ELSE IF SameUser(m.recipientId, m.senderId)
  THEN {[s EXCEPT !.suppressed = @ \cup {m}]}
  ELSE {Caught([s EXCEPT !.undelivered = @ \cup {m},
                         !.attempted = @ \cup {<<"publish", m>>}]),
        LET t == [s EXCEPT !.published = @ \cup {m},
                           !.attempted = @ \cup {<<"publish", m>>, <<"emit", m>>}]
        IN IF HasIo
           THEN [t EXCEPT !.emitted = @ \cup {m}]
           ELSE Caught([t EXCEPT !.undelivered = @ \cup {m}])}

\* the handler ends with this state of the notifications; no handler calls
\* Notification.create
Notified(s) ==
  /\ published' = s.published
  /\ emitted' = s.emitted
  /\ suppressed' = s.suppressed
  /\ undelivered' = s.undelivered
  /\ attempted' = s.attempted
  /\ UNCHANGED <<notifications, inboxCall>>

\* res.status(status) of a handler, with what console.error logged
Answer(status, error) ==
  /\ res' = status
  /\ last' = error

\* the end of a handler after its notification blocks: the success response,
\* or the 500 of the handler's own catch when an exception left a block
Finish(s, status) ==
  /\ Notified(s)
  /\ IF s.threw THEN Answer(500, s.error) ELSE Answer(status, s.error)

\* postController.likePost: Post.like, Post.getById, the notification block
\* and the 200 (the owner of a post never changes, so the awaits of the
\* handler are taken in one step)
likePost(u, c) ==
  /\ nextId \in InteractionIds
  /\ nextId' = nextId + 1
  /\ \/ /\ LikeTransact(c, nextId, u)
        /\ LET post == DynamoGet(DynamoAdd(posts, c, "likesCount", 1), c)
               m == NotificationMessage("like", u, OwnerOf(post), c, "post")
           IN \/ \E s \in NotificationBlock(NotifyState, m, FALSE) :
                   Finish(s, 200)
              \/ Answer(500, "StoreError") /\ UNCHANGED notifyVars
     \/ /\ UNCHANGED <<posts, interactions, notifyVars>>
        /\ Answer(500, "StoreError")
  /\ UNCHANGED <<createdPosts, graphVars, limiterVars, timelineVars, cursorVars, pc, call>>

\* postController.sharePost: Post.share, Post.getById, the notification
\* block and the 200
sharePost(u, c) ==
  /\ IF "sharesCount" \in DOMAIN DynamoGet(posts, c)
     THEN DynamoGet(posts, c).sharesCount < MaxShares
     ELSE TRUE
  /\ \/ /\ posts' = DynamoAdd(posts, c, "sharesCount", 1)
        /\ LET post == DynamoGet(DynamoAdd(posts, c, "sharesCount", 1), c)
               m == NotificationMessage("share", u, OwnerOf(post), c, "post")
           IN \/ \E s \in NotificationBlock(NotifyState, m, FALSE) :
                   Finish(s, 200)
              \/ Answer(500, "StoreError") /\ UNCHANGED notifyVars
     \/ /\ UNCHANGED <<posts, notifyVars>>
        /\ Answer(500, "StoreError")
  /\ UNCHANGED <<interactions, createdPosts, nextId, graphVars, limiterVars, timelineVars,
                 cursorVars, pc, call>>

\* the block of addComment that notifies the author of the parent comment
\* (parentId 0: the request carries none)
ReplyBlock(s, u, parentId) ==
  IF parentId = 0 \/ s.threw
  THEN {s}
  ELSE NotificationBlock(s,
         NotificationMessage("reply", u, DynamoGet(interactions, parentId).userId,
                             parentId, "comment"),
         FALSE)

\* interactionController.addComment: the checks of the content and of the
\* parent comment, Interaction.create, User.getById, both notification
\* blocks and the 201
addComment(u, c, parentId) ==
  /\ nextId \in InteractionIds
  /\ nextId' = nextId + 1
  /\ LET post == DynamoGet(posts, c)
         story == StoryGet(c)
         contentOwnerId == IF post # Undefined THEN OwnerOf(post)
                           ELSE IF story # Undefined THEN story.userId ELSE 0
         parentComment == DynamoGet(interactions, parentId)
         m == NotificationMessage("comment", u, contentOwnerId, c,
                                  IF post # Undefined THEN "post" ELSE "reel")
     IN \/ /\ Answer(500, "StoreError")
           /\ UNCHANGED <<posts, interactions, notifyVars>>
        \/ IF \/ post = Undefined /\ story = Undefined
              \/ parentId # 0 /\ (parentComment = Undefined \/ parentComment.type # "comment")
           THEN /\ Answer(404, last)
                /\ UNCHANGED <<posts, interactions, notifyVars>>
           ELSE /\ interactions' = DynamoPut(interactions, nextId,
                                             InteractionItem("comment", u, c))
                /\ \/ /\ Answer(500, "StoreError")
                      /\ UNCHANGED <<posts, notifyVars>>
                   \/ /\ posts' = DynamoAdd(posts, c, "commentsCount", 1)
                      /\ \/ Answer(500, "StoreError") /\ UNCHANGED notifyVars
                         \/ \E s1 \in NotificationBlock(NotifyState, m, TRUE) :
                              \E s2 \in ReplyBlock(s1, u, parentId) :
                                Finish(s2, 201)
  /\ UNCHANGED <<createdPosts, graphVars, limiterVars, timelineVars, cursorVars, pc, call>>

\* interactionController.likeComment: the check of the comment,
\* Interaction.create of the like row, the notification block and the 200
likeComment(u, commentId) ==
  /\ nextId \in InteractionIds
  /\ nextId' = nextId + 1
  /\ LET comment == DynamoGet(interactions, commentId)
     IN \/ /\ Answer(500, "StoreError")
           /\ UNCHANGED <<interactions, notifyVars>>
        \/ IF comment = Undefined \/ comment.type # "comment"
           THEN /\ Answer(404, last)
                /\ UNCHANGED <<interactions, notifyVars>>
           ELSE /\ interactions' = DynamoPut(interactions, nextId,
                                     InteractionItem("like", u, CommentRef(commentId)))
                /\ \E s \in NotificationBlock(NotifyState,
                              NotificationMessage("like", u, comment.userId, commentId,
                                                  "comment"),
                              FALSE) :
                     Finish(s, 200)
  /\ UNCHANGED <<posts, createdPosts, graphVars, limiterVars, timelineVars, cursorVars, pc,
                 call>>

NotifyNext ==
  \/ \E u \in Users : CreatePost(u)
  \/ \E u \in Users, c \in ContentIds : likePost(u, c)
  \/ \E u \in Users, c \in ContentIds : sharePost(u, c)
  \/ \E u \in Users, c \in ContentIds, parentId \in 0..MaxIds : addComment(u, c, parentId)
  \/ \E u \in Users, commentId \in InteractionIds : likeComment(u, commentId)

NotifySpec == Init /\ [][NotifyNext]_vars


\* ------------------------------------------------------ notification inbox
\* what the handlers of the inbox never touch
offInboxVars ==
  <<ledgerVars, graphVars, limiterVars, timelineVars, cursorVars, published, emitted,
    suppressed, undelivered, attempted, pc, call>>

\* the messages Notification.create is called with
NotificationData ==
  {NotificationMessage(type, u, r, c, "post") :
     type \in {"like", "comment"}, u \in Users, r \in Users, c \in PostIds}

\* notificationItem of Notification.create
NotificationItem(data) ==
  [recipientId |-> data.recipientId, senderId |-> data.senderId, type |-> data.type,
   contentId |-> data.contentId, contentType |-> data.contentType, read |-> FALSE]

\* Notification.create: the conditional put under a fresh uuid (ids are
\* handed out in order; the modelled calls delete no item)
NotificationCreate(data) ==
  /\ Cardinality(DOMAIN notifications) < MaxNotifications
  /\ LET notificationId == Cardinality(DOMAIN notifications) + 1
     IN \/ /\ notifications' = DynamoPut(notifications, notificationId,
                                         NotificationItem(data))
           /\ UNCHANGED last
        \/ /\ UNCHANGED notifications
           /\ last' = "StoreError"
  /\ UNCHANGED <<res, inboxCall, offInboxVars>>

\* a property of a value that is a plain object: obj[name]
Property(obj, name) == IF name \in DOMAIN obj THEN obj[name] ELSE Undefined

\* 'notification.Item' where notification is what dynamoDb.get returned
ItemOf(notification) == Property(notification, "Item")

\* notificationController.markAsRead -> Notification.markAsRead: dynamoDb.get
\* (which returns result.Item), the two checks on notification.Item, the
\* update 'SET #read = :read', and the mapping of the error to 404 or 500
markAsRead(notificationId, userId) ==
  /\ inboxCall' = [notificationId |-> notificationId, userId |-> userId]
  /\ LET notification == DynamoGet(notifications, notificationId)
     IN \/ /\ Answer(500, "StoreError")
           /\ UNCHANGED notifications
        \/ IF notification = Undefined
           THEN /\ Answer(500, "TypeError")
                /\ UNCHANGED notifications
           ELSE IF ItemOf(notification) = Undefined
           THEN /\ Answer(404, "Notification not found")
                /\ UNCHANGED notifications
           ELSE IF ItemOf(notification).recipientId # userId
           THEN /\ Answer(404, "Not authorized to update this notification")
                /\ UNCHANGED notifications
           ELSE /\ notifications' = [notifications EXCEPT ![notificationId].read = TRUE]
                /\ Answer(200, last)
  /\ UNCHANGED offInboxVars

InboxNext ==
  \/ \E data \in NotificationData : NotificationCreate(data)
  \/ \E notificationId \in 1..(MaxNotifications + 1), userId \in Users :
       markAsRead(notificationId, userId)

InboxSpec == Init /\ [][InboxNext]_vars


\* ================================================================= claims
\* a counter of a stored post as a response shows it (0 stands for an item
\* that lacks the attribute)
CounterIn(table, c, attr) ==
  IF c \in DOMAIN table /\ attr \in DOMAIN table[c] THEN table[c][attr] ELSE 0

Counter(c, attr) == CounterIn(posts, c, attr)

\* the stored interaction rows of a type that target a content id
RowsIn(table, type, c) ==
  {i \in DOMAIN table : table[i].type = type /\ table[i].contentId = c}

RowsOf(type, c) == RowsIn(interactions, type, c)

InFlight(ops) == \E p \in Procs : pc[p] # "idle" /\ call[p].op \in ops

\* C1: whenever no like, unlike or interaction-delete call is in progress,
\* likesCount of every stored post equals the number of stored like rows
\* that target it
C1_LikesCountMatchesRows ==
  ~InFlight({"like", "unlike", "delete"}) =>
    \A c \in DOMAIN posts : Counter(c, "likesCount") = Cardinality(RowsOf("like", c))

\* C2: whenever no comment creation or interaction-delete call is in
\* progress, commentsCount of every stored post equals the number of stored
\* comment rows that target it
C2_CommentsCountMatchesRows ==
  ~InFlight({"comment", "delete"}) =>
    \A c \in DOMAIN posts :
      Counter(c, "commentsCount") = Cardinality(RowsOf("comment", c))

\* a step of request p that is a store write of Interaction.create for a
\* comment or of Interaction.delete for a comment row
CommentWriteStep(p) ==
  /\ pc[p] \in {"ic_put", "ic_update", "id_delete", "id_update"}
  /\ pc[p] = "id_delete" => call[p].type = "comment"
  /\ pc'[p] # pc[p]

\* C3: recording or removing a comment changes the row and commentsCount as
\* one atomic unit: no step of Interaction.create or Interaction.delete
\* changes the interactions table without the posts table or the posts table
\* without the interactions table, so no state shows one without the other
C3_CommentRowAndCounterAtomic ==
  [][\A p \in Procs :
       CommentWriteStep(p) => (interactions' # interactions <=> posts' # posts)]_vars

\* C4: the transaction of Post.like and of Post.unlike is all or nothing: a
\* failed transaction leaves both tables as they were; a successful one of
\* Post.like adds exactly one like row and 1 to likesCount, a successful one
\* of Post.unlike removes exactly one like row and takes 1 from likesCount
C4_LikeTransactionAllOrNothing ==
  [][/\ (pc' = pc /\ nextId' # nextId) =>
         (posts' = posts /\ interactions' = interactions)
     /\ \A p \in Procs :
       /\ (pc[p] = "idle" /\ pc'[p] = "like_get") =>
            \E c \in ContentIds :
               /\ c = call'[p].target
               /\ Cardinality(RowsIn(interactions', "like", c)) =
                    Cardinality(RowsIn(interactions, "like", c)) + 1
               /\ Cardinality(DOMAIN interactions') = Cardinality(DOMAIN interactions) + 1
               /\ CounterIn(posts', c, "likesCount") = CounterIn(posts, c, "likesCount") + 1
       /\ (pc[p] = "unlike_tx" /\ pc'[p] = "unlike_get") =>
            \E c \in ContentIds :
               /\ c = call[p].target
               /\ Cardinality(RowsIn(interactions', "like", c)) =
                    Cardinality(RowsIn(interactions, "like", c)) - 1
               /\ Cardinality(DOMAIN interactions') = Cardinality(DOMAIN interactions) - 1
               /\ CounterIn(posts', c, "likesCount") = CounterIn(posts, c, "likesCount") - 1
       /\ (pc[p] = "unlike_tx" /\ pc'[p] = "idle") =>
            (posts' = posts /\ interactions' = interactions)]_vars

\* C5: a like or a comment whose target post does not exist when the write is
\* applied writes nothing: the like transaction does not go through, and the
\* put and the counter update of Interaction.create leave both tables as
\* they were
C5_NoWriteForMissingTarget ==
  [][\A p \in Procs :
       /\ ~(pc[p] = "idle" /\ pc'[p] = "like_get" /\ call'[p].target \notin DOMAIN posts)
       /\ (pc[p] \in {"ic_put", "ic_update"} /\ pc'[p] # pc[p]
           /\ call[p].target \notin DOMAIN posts) =>
            (posts' = posts /\ interactions' = interactions)]_vars

\* the like rows of one (actor, post) pair
LikeRowsOfPair(u, c) ==
  {i \in DOMAIN interactions : interactions[i] = InteractionItem("like", u, c)}

\* C6: liking is idempotent per (actor, post): no state holds more than one
\* like row for the same user and post
C6_AtMostOneLikeRowPerPair ==
  \A u \in Users, c \in ContentIds : Cardinality(LikeRowsOfPair(u, c)) <= 1

\* C7: likesCount, commentsCount and sharesCount of every stored post item
\* are >= 0 in every reachable state
C7_CountersNonNegative ==
  \A c \in DOMAIN posts :
    \A attr \in {"likesCount", "commentsCount", "sharesCount"} : Counter(c, attr) >= 0

\* C8: Interaction.delete called by a user who is not the actor of the stored
\* row is refused with the 'Unauthorized to delete this interaction' error
\* (the spec's Forbidden) and writes nothing; only a failed read of the row
\* ends it otherwise
C8_DeleteByNonActorRefused ==
  [][\A p \in Procs :
       (/\ pc[p] = "id_get" /\ pc'[p] # "id_get"
        /\ call[p].iid \in DOMAIN interactions
        /\ interactions[call[p].iid].userId # call[p].user) =>
         /\ pc'[p] = "idle"
         /\ last' \in {"Unauthorized to delete this interaction", "StoreError"}
         /\ posts' = posts
         /\ interactions' = interactions]_vars

\* C8 witness: a delete by a non-actor has been refused and the rows it could
\* have named are still stored
C8_Witness ==
  /\ last = "Unauthorized to delete this interaction"
  /\ interactions # <<>>
  /\ \A p \in Procs : pc[p] = "idle"

ConcurrentOnPair(p) ==
  \E q \in Procs \ {p} :
    /\ pc[q] # "idle"
    /\ {call[q].user, call[q].target} = {call[p].user, call[p].target}

\* C10: for registered users a # b and no concurrent graph request on the
\* pair, when follow(a,b) ends without a store failure, b is in following(a)
\* and a is in followers(b); when unfollow(a,b) ends without a store
\* failure, b is not in following(a) and a is not in followers(b)
C10_FollowThenEdge ==
  [][\A p \in Procs :
       (/\ pc[p] # "idle" /\ pc'[p] = "idle"
        /\ call[p].op \in {"follow", "unfollow"}
        /\ call[p].target \in Users
        /\ ~ConcurrentOnPair(p)
        /\ last' # "StoreError") =>
         IF call[p].op = "follow"
         THEN /\ call[p].target \in following'[call[p].user]
              /\ call[p].user \in followers'[call[p].target]
         ELSE /\ call[p].target \notin following'[call[p].user]
              /\ call[p].user \notin followers'[call[p].target]]_vars

\* a follow or unfollow request of p between registered users ends in this
\* step and no store call of it was rejected
GraphCallEnds(p) ==
  /\ pc[p] # "idle" /\ pc'[p] = "idle"
  /\ call[p].op \in {"follow", "unfollow"}
  /\ call[p].target \in Users
  /\ last' # "StoreError"

\* C11: follow(a,b) and unfollow(a,b) are idempotent: every such call whose
\* store calls are not rejected succeeds (200), a follow of an edge that is
\* already stored leaves following and followers as they are, and an
\* unfollow of an absent edge succeeds and changes nothing
C11_FollowIdempotent ==
  [][\A p \in Procs :
       /\ GraphCallEnds(p) => res' = 200
       /\ (/\ pc[p] = "graph_following" /\ pc'[p] # pc[p]
           /\ (call[p].op = "follow" <=> call[p].target \in following[call[p].user]))
            => following' = following
       /\ (/\ pc[p] = "graph_followers" /\ pc'[p] # pc[p]
           /\ (call[p].op = "follow" <=> call[p].user \in followers[call[p].target]))
            => followers' = followers]_vars

\* C12: a follow or unfollow of oneself is rejected with 400 before any store
\* call and changes nothing, no request on oneself ever gets past the check,
\* and no user is in their own following or followers set
C12_SelfFollowRejected ==
  [][/\ (\E p \in Procs, u \in Users, op \in {"follow", "unfollow"} :
           GraphRequest(p, op, u, u))
         => (res' = 400 /\ pc' = pc /\ UNCHANGED <<graphVars, ledgerVars>>)
     /\ \A p \in Procs :
          (pc'[p] # "idle" /\ call'[p].op \in {"follow", "unfollow"})
            => call'[p].user # call'[p].target
     /\ \A a \in Users : a \notin following'[a] /\ a \notin followers'[a]]_vars

\* C12 witness: the last answer of userController was the 400 of a request on
\* oneself, no request is in progress and no set holds a member
C12_Witness ==
  /\ res = 400
  /\ \A p \in Procs : pc[p] = "idle"
  /\ \A a \in Users : following[a] = {} /\ followers[a] = {}

\* C13: of the requests on one key that ran one at a time in one window with
\* no store call rejected, the first maxRequests were passed on and every
\* further one was denied with 429
C13_FirstLimitAdmittedRestDenied ==
  (clean /\ maxRequests > 0) =>
    /\ admits = Min(calls, maxRequests)
    /\ (calls > maxRequests => out.status = "429")
    /\ (calls \in 1..maxRequests => out.status = "next")
    /\ (rateRecord # Undefined => rateRecord.count = admits)

\* C13 witness: with maxRequests = 5, six requests ran one at a time in one
\* window; five were passed on and the sixth was denied
C13_Witness ==
  /\ clean /\ maxRequests = 5
  /\ calls = 6 /\ admits = 5
  /\ out.status = "429"
  /\ \A p \in Procs : pc[p] = "idle"

\* C14: the request that finds an expired record and replaces it stores
\* count 1 with its own now as timestamp, is passed on, and reports
\* X-RateLimit-Remaining = maxRequests - 1, whatever count the expired
\* record had
C14_NewWindowReportsLimitMinusOne ==
  [][\A p \in Procs :
       (/\ pc[p] = "rl_put" /\ pc'[p] = "idle"
        /\ admitCall[p].hasExisting
        /\ ~rejected') =>
         /\ rateRecord' = NewRecord(admitCall[p].now)
         /\ out'.status = "next"
         /\ out'.hasRemaining
         /\ out'.remaining = maxRequests - 1]_vars

\* C15: the rate limiter fails open: whenever the store rejected its last
\* store call, the request was passed on to next(), not answered with 429,
\* and the failure was logged
C15_FailOpen ==
  rejected => (out.status = "next" /\ last = "Rate limiting error")

\* C15 witness: a record is stored, the store rejected the last store call
\* of the limiter and the request was passed on
C15_Witness ==
  /\ rejected
  /\ out.status = "next"
  /\ rateRecord # Undefined
  /\ \A p \in Procs : pc[p] = "idle"

\* the posts of a set of owners
PostsOf(owners) == UNION {{userIdIndex[u][i] : i \in DOMAIN userIdIndex[u]} : u \in owners}

\* the n newest of a set of posts, newest first
RECURSIVE Newest(_, _)
Newest(set, n) ==
  IF n = 0 \/ set = {} THEN <<>>
  ELSE LET top == CHOOSE x \in set : \A y \in set : x.timestamp >= y.timestamp
       IN <<top>> \o Newest(set \ {top}, n - 1)

Range(seq) == {seq[i] : i \in DOMAIN seq}

\* C16: a call of Post.getTimelinePosts(owners, limit) that does not throw
\* returns the limit newest posts of all posts of the owners, newest first
\* (all of them when there are fewer than limit)
C16_TimelineNewestFirst ==
  [][\A owners \in OwnerLists, limit \in 1..MaxPageSize :
       (GetTimelinePosts(owners, limit) /\ ~timeline'.threw)
         => timeline'.posts = Newest(PostsOf(Range(owners)), limit)]_vars

\* C17: a call of Post.getTimelinePosts in which the query of some but not
\* all owners is rejected does not throw and returns the limit newest posts
\* of the owners whose queries succeeded, newest first
C17_TimelinePartialFailure ==
  [][\A owners \in OwnerLists, limit \in 1..MaxPageSize :
       (/\ GetTimelinePosts(owners, limit)
        /\ timeline'.failed # {}
        /\ timeline'.failed # Range(owners))
         => /\ ~timeline'.threw
            /\ timeline'.posts = Newest(PostsOf(Range(owners) \ timeline'.failed), limit)]_vars

\* C18: cursor round trip: decoding the nextKey that encodes a position
\* marker gives that marker again, and a request that hands this nextKey
\* back as lastKey is not refused and passes exactly that marker to the store
\* as ExclusiveStartKey
C18_CursorRoundTrip ==
  nextKey # <<>> =>
    /\ Decode(nextKey) = Parsed(marker)
    /\ (page.lastKey = nextKey =>
          (page.status # 400 /\ page.passed /\ page.startKey = marker))

\* C18 witness: a marker was encoded and the token was handed back as
\* lastKey of a request, which passed a start key to the store
C18_Witness ==
  /\ nextKey # <<>>
  /\ page.lastKey = nextKey
  /\ page.passed

\* C19: a request whose lastKey does not decode to a position marker is
\* answered 400 'Invalid lastKey format': nothing of it is passed to the
\* store and it does not end in the 500 of the catch block
C19_InvalidCursorRefused ==
  (/\ page.lastKey # <<>>
   /\ (~Decode(page.lastKey).ok \/ Decode(page.lastKey).value \notin Markers))
    => (page.status = 400 /\ ~page.passed)

\* C20: a like, comment, reply or share whose recipient would be the acting
\* user leaves no trace as a notification: no message with recipientId =
\* senderId is published to the topic or emitted as a real-time event, what a
\* handler suppressed is never sent, and no Notification item is stored
C20_SelfNotificationSuppressed ==
  /\ DOMAIN notifications = {}
  /\ \A m \in published \cup emitted : m.recipientId # m.senderId
  /\ suppressed \cap (published \cup emitted) = {}

\* a user has replied to their own comment under their own post and got 201;
\* another user's share of that post was published
C20_Witness ==
  /\ res = 201
  /\ \E m \in suppressed : m.type = "reply"
  /\ \E m \in suppressed : m.type = "comment"
  /\ \E m \in published : m.type = "share" /\ m.recipientId \in Users

\* the notifications for which a call of a notification block threw in this step
NewlyUndelivered == undelivered' \ undelivered

\* the interaction rows this step has put
NewRows == {interactions'[i] : i \in DOMAIN interactions' \ DOMAIN interactions}

\* the engagement a notification message reports is recorded by this step: its
\* row is put and its counter is one higher
Recorded(m) ==
  CASE m.type = "like" /\ m.contentType = "post" ->
         /\ InteractionItem("like", m.senderId, m.contentId) \in NewRows
         /\ CounterIn(posts', m.contentId, "likesCount")
              = CounterIn(posts, m.contentId, "likesCount") + 1
    [] m.type = "like" /\ m.contentType = "comment" ->
         InteractionItem("like", m.senderId, CommentRef(m.contentId)) \in NewRows
    [] m.type = "share" ->
         CounterIn(posts', m.contentId, "sharesCount")
           = CounterIn(posts, m.contentId, "sharesCount") + 1
    [] m.type = "comment" ->
         /\ InteractionItem("comment", m.senderId, m.contentId) \in NewRows
         /\ CounterIn(posts', m.contentId, "commentsCount")
              = CounterIn(posts, m.contentId, "commentsCount") + 1
    [] m.type = "reply" ->
         \E c \in ContentIds :
           /\ InteractionItem("comment", m.senderId, c) \in NewRows
           /\ CounterIn(posts', c, "commentsCount")
                = CounterIn(posts, c, "commentsCount") + 1

\* C21: when the publish or the real-time emit of a notification fails, the
\* request that triggered it still answers with its success status, and the
\* interaction row and the counter change of the like, comment or share it
\* recorded stay applied
C21_FanoutFailureKeepsAction ==
  [][\A m \in NewlyUndelivered : res' \in {200, 201} /\ Recorded(m)]_vars

\* a comment under another user's post was answered 201 and is stored with
\* its counter, while the publish of its notification was rejected
C21_Witness ==
  /\ res = 201
  /\ \E m \in undelivered \ published :
       /\ m.type = "comment"
       /\ \E i \in DOMAIN interactions :
            interactions[i] = InteractionItem("comment", m.senderId, m.contentId)
       /\ CounterIn(posts, m.contentId, "commentsCount") >= 1

\* the steps a notification has according to its description
FanoutSteps == {"persist", "emit", "publish"}

\* C22: the steps of a notification are independently best-effort: once one
\* step of a message was started, each other step of that message was
\* started too, whether or not a step failed
C22_StepsIndependent ==
  \A a \in attempted : \A step \in FanoutSteps : <<step, a[2]>> \in attempted

\* C23: every like, comment or share by a user other than the owner that was
\* recorded and reached its notification block has a Notification item in
\* the table, addressed to the owner, unread
C23_NotificationPersisted ==
  \A a \in attempted :
    \E id \in DOMAIN notifications :
      /\ notifications[id].recipientId = a[2].recipientId
      /\ notifications[id].senderId = a[2].senderId
      /\ notifications[id].type = a[2].type
      /\ notifications[id].read = FALSE

\* C24: markAsRead(n, u) on an existing notification answers 200 and sets
\* read = true with every other field as it was when u is its recipient;
\* for any other user it fails and leaves the table as it was
C24_MarkAsRead ==
  [][\A n \in DOMAIN notifications, u \in Users :
       (markAsRead(n, u) /\ last' # "StoreError")
         => IF notifications[n].recipientId = u
            THEN /\ res' = 200
                 /\ notifications' = [notifications EXCEPT ![n].read = TRUE]
            ELSE /\ res' # 200
                 /\ notifications' = notifications]_vars

\* C25: a request that finds the record within its window with count >=
\* maxRequests is denied with 429 and ends there: the stored record (count,
\* timestamp, expiryTime) is as it was and no write of the request is pending
C25_DenyLeavesRecord ==
  [][\A p \in Procs :
       (/\ Admit(p)
        /\ ~rejected'
        /\ InWindow(rateRecord, now)
        /\ rateRecord.count >= maxRequests) =>
         /\ out'.status = "429"
         /\ rateRecord' = rateRecord
         /\ pc' = pc]_vars

\* a request was denied a second after the window started; the record holds
\* the full count of that window, its timestamp and its expiryTime
C25_Witness ==
  /\ out.status = "429"
  /\ ~rejected
  /\ InWindow(rateRecord, now)
  /\ now > rateRecord.timestamp
  /\ rateRecord.count = maxRequests
  /\ rateRecord.expiryTime = rateRecord.timestamp + windowSizeInSeconds * 2
  /\ \A p \in Procs : pc[p] = "idle"

\* C29: while the stored record is within its window, no step lowers its
\* count or changes its timestamp, whatever requests are in flight
C29_LiveWindowNeverReset ==
  [][(rateRecord # Undefined /\ InWindow(rateRecord, now)) =>
       /\ rateRecord'.count >= rateRecord.count
       /\ rateRecord'.timestamp = rateRecord.timestamp]_vars

\* C26: with at most NumProcs requests on the key in flight at a time and no
\* store call rejected, the requests passed on within windowSizeInSeconds of
\* a window's start number at most maxRequests + NumProcs - 1
C26_BoundedOverAdmission ==
  windowLog.started =>
    windowLog.passed <= maxRequests + NumProcs - 1

C28_EveryRequestTerminates ==
  \A p \in Procs : (pc[p] # "idle") ~> (pc[p] = "idle")

\* C30: every item of the posts table was written by Post.create: it has an
\* owner and its three counters, whatever ids the like, unlike, comment,
\* delete and share calls have targeted
C30_CountersNeverCreateContent ==
  \A c \in DOMAIN posts :
    {"userId", "likesCount", "commentsCount", "sharesCount"} \subseteq DOMAIN posts[c]

====
